---- MODULE Spec2Model ----
(***************************************************************************)
(* Model of jspeechrecognizer/speech.py: the SpeechRecognizer stream       *)
(* orchestrator (_recognize, _reset) driven one audio block at a time, the  *)
(* listening session (start, _start) and the two recognizers               *)
(* (GoogleRecognizer, VoskRecognizer).                                     *)
(*                                                                         *)
(* Time is counted in whole seconds: time.time() is the variable now, the  *)
(* clock read when the last audio block was handled.  Each block arrives   *)
(* some seconds (possibly none) after the previous one, and every read of  *)
(* the clock made while one block is handled returns the same value.       *)
(*                                                                         *)
(* Python strings that the code inspects (the recognizer's code, the text) *)
(* are sequences of tokens: "" is <<>>, "full" is <<"full">> and           *)
(* "error: m" is <<"error: ", "m">>, so startswith("error: ") is a test on *)
(* the first token.  An audio block is identified by its arrival number.   *)
(***************************************************************************)
EXTENDS Integers, Sequences, FiniteSets, TLC

\* ---------------------------------------------------------------- bounds
\* number of audio blocks delivered to _recognize in the main specification
MaxFrames == 5
\* last clock value explored in the main specification
MaxTime == 9
\* longest pause between two audio blocks, in seconds
MaxGap == 5
\* the speechLength constructor argument, in seconds
SpeechLengthArg == 1
\* audio blocks and wake-ups in the pre-wake buffer specification
MaxStreamFrames == 32
MaxStreamWakeUps == 1
\* audio blocks delivered in the specification of the two recognizers
MaxBackendFrames == 4
\* audio blocks delivered in the specification of the listening session
MaxSessionFrames == 2
MaxLiveFrames == 7
MaxLiveGap == 2
MaxLiveSpeech == 2

\* ------------------------------------------------------ program constants
\* self.startSpeechLength = 4 (seconds)
StartSpeechLength == 4
\* len(self._wakeWordStreams) >= 30
WakeWordStreamsCap == 30
\* self._prevSpeaking = None: falsy in "if self._prevSpeaking", like 0.0
None == 0

\* values of the speechLength constructor parameter that are explored
SpeechLengths == {SpeechLengthArg}
\* porcupine.process returns -1 for no keyword, else the keyword's index
WakeWordIndexes == {-1, 0}
Texts == {<<"turn on the lights">>}
Messages == {"network timeout"}

\* ----------------------------------------------------------------- state
VARIABLES
  woke, listen, speechLength, realSpeechLength, startSpeechLength,
  _prevSpeaking, _speakingLength, _frames, _count, _wakeWordStreams,
  _isSpeech,
  now,        \* time.time() when the last audio block was handled
  frameNo,    \* number of audio blocks handled so far
  calls,      \* the callback invocations of the last _recognize call, in
              \* order, each with the value of self.woke the sink could read
  last,       \* what the last _recognize call was given and decided
  boundaries, \* types of the wakeWordDetected / completeFrames events of the
              \* whole session, in delivery order
  wakeUps,    \* number of times woke went from False to True
  uttStart,   \* arrival number of the block that last woke the recognizer
  speechAt,   \* clock of the last wake or voice-activity block
  speechFrame,\* arrival number of that block
  spoken,     \* a block was classified as speech since the last wake-up
  matched,    \* porcupine has reported a keyword on some block
  asleep,     \* the blocks handled while not woke, in arrival order
  cadence,    \* common spacing of the blocks handled since that block
              \* (0: none handled yet, -1: they were not evenly spaced)
  recognizer, \* kind of object self.recognizer is
  recGiven,   \* callback the recognizer was constructed with
  recCallback,\* self.recognizer.callback
  googleFrames, \* GoogleRecognizer.frames
  voskRec,    \* blocks the KaldiRecognizer holds since it was last reset
  stream,     \* the RawInputStream of _start
  mode,       \* how start was called
  stopRequested, \* the host has asked the session to stop
  afterStop,  \* audio blocks handled since then
  invoked,    \* collaborators called while the last block was handled
  porcupineCalls, \* blocks given to porcupine.process, in call order
  vadCalls,   \* blocks given to vad.isSpeech, in call order
  recognizeCalls, \* <<block, flag>> given to recognizer.recognize
  awakeBlocks,\* blocks that arrived while woke or with a keyword
  payloads,   \* the frames objects the sink was given, each with the
              \* contents it had when it was delivered
  resetAt     \* clock of the last _reset (0: none)

vars == <<woke, listen, speechLength, realSpeechLength, startSpeechLength,
          _prevSpeaking, _speakingLength, _frames, _count, _wakeWordStreams,
          _isSpeech, now, frameNo, calls, last, boundaries, wakeUps,
          uttStart, speechAt, speechFrame, spoken, matched, asleep, cadence,
          recognizer, recGiven, recCallback, googleFrames, voskRec, stream,
          mode, stopRequested, afterStop, invoked, porcupineCalls, vadCalls,
          recognizeCalls, awakeBlocks, payloads, resetAt>>

\* --------------------------------------------------------------- helpers
StartsWith(code, prefix) == Len(code) >= 1 /\ code[1] = prefix

\* recognizer.recognize(bytes(data), isSpeech) -> (text, status, code) of a
\* duck-typed recognizer object.  "any" returns any of the codes _recognize
\* distinguishes; "quiet" never recognizes anything.
RecognizerResults(kind, isSpeech) ==
  IF kind = "quiet" THEN {<<(<<>>), FALSE, (<<>>)>>}
  ELSE {<<(<<>>), FALSE, (<<>>)>>, <<(<<>>), FALSE, <<"unrecognized">>>>}
       \cup {<<t, TRUE, <<"partial">>>> : t \in Texts}
       \cup {<<t, TRUE, <<"full">>>> : t \in Texts}
       \cup {<<(<<>>), FALSE, <<"error: ", m>>>> : m \in Messages}

\* one callback invocation: the dict and self.woke at that moment
Call(dict, w) == [data |-> dict, woke |-> w]

\* a buffer that evicts one block too late
PushWakeWordStreamLate(streams, data) ==
  Append(IF Len(streams) > WakeWordStreamsCap THEN Tail(streams) ELSE streams,
         data)

\* lines 266-269, for a block handled while not woke
PushWakeWordStream(streams, data) ==
  Append(IF Len(streams) >= WakeWordStreamsCap THEN Tail(streams) ELSE streams,
         data)

\* a wake-up that does not test self.woke
WakeCondRetrigger(wakeWordIndex, w) == wakeWordIndex >= 0

\* a wake-up that takes porcupine's -1 (no keyword) for a keyword index
WakeCondNoKeyword(wakeWordIndex, w) == wakeWordIndex >= -1 /\ ~w

\* line 271
WakeCond(wakeWordIndex, w) == wakeWordIndex >= 0 /\ ~w

\* a threshold that ignores self._count
ActiveSpeechLengthSteady(count, start, real) == real

\* lines 296-299
ActiveSpeechLength(count, start, real) == IF count = 0 THEN start ELSE real

\* a timeout that fires when the silence equals the threshold
IsSpeechFlagInclusive(speakingLength, length, isSpeech) ==
  IF speakingLength >= length THEN FALSE ELSE isSpeech

\* a decision that never ends the utterance
IsSpeechFlagStuck(speakingLength, length, isSpeech) == isSpeech

\* lines 301-302
IsSpeechFlag(speakingLength, length, isSpeech) ==
  IF speakingLength > length THEN FALSE ELSE isSpeech

\* a dispatch without the error branch
CodeCallsNoError(text, code, w) ==
  IF code = <<"partial">> THEN <<Call([type |-> "partialText", text |-> text], w)>>
  ELSE IF code = <<"full">> THEN <<Call([type |-> "fullText", text |-> text], w)>>
  ELSE IF code = <<"unrecognized">> THEN <<Call([type |-> "unrecognized"], w)>>
  ELSE <<>>

\* a dispatch that reports a full text as a partial one
CodeCallsFullAsPartial(text, code, w) ==
  IF code = <<"partial">> \/ code = <<"full">>
  THEN <<Call([type |-> "partialText", text |-> text], w)>>
  ELSE IF code = <<"unrecognized">> THEN <<Call([type |-> "unrecognized"], w)>>
  ELSE IF StartsWith(code, "error: ") THEN <<Call([type |-> "error", text |-> code], w)>>
  ELSE <<>>

\* lines 310-324: the callback invocations for the recognizer's code
CodeCalls(text, code, w) ==
  IF code = <<"partial">> THEN <<Call([type |-> "partialText", text |-> text], w)>>
  ELSE IF code = <<"full">> THEN <<Call([type |-> "fullText", text |-> text], w)>>
  ELSE IF code = <<"unrecognized">> THEN <<Call([type |-> "unrecognized"], w)>>
  ELSE IF StartsWith(code, "error: ") THEN <<Call([type |-> "error", text |-> code], w)>>
  ELSE <<>>

\* a reset that leaves self._isSpeech as it is
ResetKeepsFlag(s, t) == [s EXCEPT !.woke = FALSE, !._count = 0,
                               !._prevSpeaking = t, !._speakingLength = 0]

\* a reset that leaves self.woke set
ResetStillWoke(s, t) == [s EXCEPT !._count = 0, !._prevSpeaking = t,
                                  !._speakingLength = 0, !._isSpeech = TRUE]

\* lines 254-259, on the fields _reset assigns
Reset(s, t) == [s EXCEPT !.woke = FALSE, !._count = 0, !._prevSpeaking = t,
                      !._speakingLength = 0, !._isSpeech = TRUE]

\* lines 306-308: the completeFrames callback, then _reset
CompleteFrames(s, t) ==
  [Reset(s, t) EXCEPT !.calls =
     Append(s.calls, Call([type |-> "completeFrames", frames |-> s._frames], s.woke))]

TypeOf(c) == c.data.type
BoundaryTypes(cs) ==
  SelectSeq([i \in 1..Len(cs) |-> TypeOf(cs[i])],
            LAMBDA t : t \in {"wakeWordDetected", "completeFrames"})

\* ----------------------------------------------------------- recognizers
\* what one call of recognizer.recognize does: the triple it returns, the
\* recognizer's own state afterwards, the dicts it gives to its callback and
\* the blocks it ran the recognition over
Outcome(text, status, code, state, events, audio) ==
  [text |-> text, status |-> status, code |-> code, state |-> state,
   events |-> events, audio |-> audio]

\* a flush that keeps the buffer when recognizer.record raises
GoogleRecognizeKeepsBuffer(buf, cb, data, isSpeech) ==
  IF isSpeech
  THEN {Outcome(<<>>, FALSE, <<>>, Append(buf, data), <<>>, <<>>)}
  ELSE LET notify == IF cb = "sink" THEN <<[type |-> "googleRecognizing"]>>
                     ELSE <<>>
       IN {Outcome(<<>>, FALSE, <<"error: ", m>>, buf, <<>>, <<>>) : m \in Messages}
          \cup {Outcome(t, TRUE, <<"full">>, <<>>, notify, buf) : t \in Texts}
          \cup {Outcome(<<>>, FALSE, <<"unrecognized">>, <<>>, notify, buf),
                Outcome(<<>>, FALSE, <<"error: ", "{e}">>, <<>>, notify, buf)}

\* lines 109-133: GoogleRecognizer.recognize, with self.frames = buf and
\* self.callback = cb.  At a flush either recognizer.record raises
\* (lines 120-122) or recognize_google returns a text, raises
\* UnknownValueError or raises something else; line 133 is not an f-string,
\* so its code ends in the literal {e}.
GoogleRecognize(buf, cb, data, isSpeech) ==
  IF isSpeech
  THEN {Outcome(<<>>, FALSE, <<>>, Append(buf, data), <<>>, <<>>)}
  ELSE LET notify == IF cb = "sink" THEN <<[type |-> "googleRecognizing"]>>
                     ELSE <<>>
       IN {Outcome(<<>>, FALSE, <<"error: ", m>>, <<>>, <<>>, <<>>) : m \in Messages}
          \cup {Outcome(t, TRUE, <<"full">>, <<>>, notify, buf) : t \in Texts}
          \cup {Outcome(<<>>, FALSE, <<"unrecognized">>, <<>>, notify, buf),
                Outcome(<<>>, FALSE, <<"error: ", "{e}">>, <<>>, notify, buf)}

\* a recognize whose second test leaves out "not isSpeech"
VoskRecognizeIgnoresFlag(rec, data, isSpeech) ==
  UNION {
    LET full == IF accept THEN text ELSE <<>>
        partial == IF accept THEN <<>> ELSE text
        rec1 == IF accept THEN <<>> ELSE Append(rec, data)
    IN IF partial # <<>> /\ isSpeech
       THEN {Outcome(partial, TRUE, <<"partial">>, rec1, <<>>, <<>>)}
       ELSE IF full # <<>>
       THEN {Outcome(full, TRUE, <<"full">>, <<>>, <<>>, <<>>)}
       ELSE {Outcome(<<>>, FALSE, <<>>, rec1, <<>>, <<>>)}
    : accept \in BOOLEAN, text \in Texts \cup {<<>>} }

\* lines 57-75: VoskRecognizer.recognize, with rec the blocks self.rec holds.
\* AcceptWaveform takes the block and either reports an end of speech, and
\* Result() then hands out the text and starts afresh, or does not, and
\* PartialResult() gives the text so far.
VoskRecognize(rec, data, isSpeech) ==
  UNION {
    LET full == IF accept THEN text ELSE <<>>
        partial == IF accept THEN <<>> ELSE text
        rec1 == IF accept THEN <<>> ELSE Append(rec, data)
    IN IF partial # <<>> /\ isSpeech
       THEN {Outcome(partial, TRUE, <<"partial">>, rec1, <<>>, <<>>)}
       ELSE IF full # <<>> \/ ~isSpeech
       THEN {Outcome(IF full # <<>> THEN full ELSE partial, TRUE, <<"full">>,
                     <<>>, <<>>, <<>>)}
       ELSE {Outcome(<<>>, FALSE, <<>>, rec1, <<>>, <<>>)}
    : accept \in BOOLEAN, text \in Texts \cup {<<>>} }

\* line 304: self.recognizer.recognize(bytes(data), self._isSpeech)
Backend(kind, buf, rec, cb, data, isSpeech) ==
  IF kind = "google" THEN GoogleRecognize(buf, cb, data, isSpeech)
  ELSE IF kind = "vosk" THEN VoskRecognize(rec, data, isSpeech)
  ELSE {Outcome(r[1], r[2], r[3], <<>>, <<>>, <<>>) :
          r \in RecognizerResults(kind, isSpeech)}

\* every recognizer's callback is replaced by the sink
InstallCallbackAlways(given) == "sink"

\* lines 235-236: a recognizer built without a callback gets the sink
InstallCallback(given) == IF given = "default" THEN "sink" ELSE given

\* the list object a completeFrames dict refers to, as it is now
Deref(ref) == IF ref = "self._frames" THEN _frames ELSE <<>>

\* ------------------------------------------------------------------ Init
\* lines 220-252, for a recognizer of one of the given kinds; start has not
\* been called yet
Constructed(kinds) ==
  /\ woke = FALSE
  /\ listen = TRUE
  /\ realSpeechLength \in SpeechLengths
  /\ speechLength = realSpeechLength
  /\ startSpeechLength = StartSpeechLength
  /\ _prevSpeaking = None
  /\ _speakingLength = 0
  /\ _frames = <<>>
  /\ _count = 0
  /\ _wakeWordStreams = <<>>
  /\ _isSpeech = TRUE
  /\ now = 1
  /\ frameNo = 0
  /\ calls = <<>>
  /\ last = [data |-> 0, wakeWordIndex |-> -1, wokeBefore |-> FALSE,
             recognized |-> FALSE, vad |-> FALSE, count |-> 0,
             isSpeech |-> TRUE, text |-> <<>>, code |-> <<>>,
             audio |-> <<>>]
  /\ boundaries = <<>>
  /\ wakeUps = 0
  /\ uttStart = 0
  /\ speechAt = 0
  /\ speechFrame = 0
  /\ spoken = FALSE
  /\ matched = FALSE
  /\ asleep = <<>>
  /\ cadence = 0
  /\ recognizer \in kinds
  /\ recGiven \in IF recognizer \in {"google", "vosk"} THEN {"default", "own"}
                  ELSE {"own"}
  /\ recCallback = InstallCallback(recGiven)
  /\ googleFrames = <<>>
  /\ voskRec = <<>>
  /\ stream = "closed"
  /\ mode = "none"
  /\ stopRequested = FALSE
  /\ afterStop = 0
  /\ invoked = <<>>
  /\ porcupineCalls = <<>>
  /\ vadCalls = <<>>
  /\ recognizeCalls = <<>>
  /\ awakeBlocks = <<>>
  /\ payloads = <<>>
  /\ resetAt = 0

Init == Constructed({"any"})

\* ------------------------------------------------- the steps of _recognize
\* the fields of self that _recognize and _reset assign, and the callback
\* invocations made so far while this block is handled
Self ==
  [woke |-> woke, _count |-> _count, _prevSpeaking |-> _prevSpeaking,
   _speakingLength |-> _speakingLength, speechLength |-> speechLength,
   _isSpeech |-> _isSpeech, _frames |-> _frames,
   _wakeWordStreams |-> _wakeWordStreams, calls |-> <<>>]

\* lines 266-269
StoreWakeWordStream(s, data) ==
  IF ~s.woke
  THEN [s EXCEPT !._wakeWordStreams = PushWakeWordStream(@, data)]
  ELSE s

\* lines 271-276
\* a wake-up that leaves self._prevSpeaking as it is
WakeUpKeepsTimestamp(s, t, wakeWordIndex) ==
  IF WakeCond(wakeWordIndex, s.woke)
  THEN [s EXCEPT !.woke = TRUE, !._count = 0,
                 !.calls = Append(@, Call([type |-> "wakeWordDetected"], TRUE))]
  ELSE s

WakeUp(s, t, wakeWordIndex) ==
  IF WakeCond(wakeWordIndex, s.woke)
  THEN [s EXCEPT !.woke = TRUE, !._count = 0, !._prevSpeaking = t,
                 !.calls = Append(@, Call([type |-> "wakeWordDetected"], TRUE))]
  ELSE s

\* lines 281-289
Collect(s, t, data, vad) ==
  IF vad
  THEN [s EXCEPT !._frames = Append(@, data), !._count = @ + 1,
                 !._prevSpeaking = t,
                 !.calls = Append(@, Call([type |-> "voiceActivity"], s.woke))]
  ELSE [s EXCEPT !._frames = Append(@, data)]

\* lines 292-299
Measure(s, t, start, real) ==
  IF s._prevSpeaking # None
  THEN [s EXCEPT !._speakingLength = t - s._prevSpeaking,
                 !.speechLength = ActiveSpeechLength(s._count, start, real)]
  ELSE s

\* lines 301-302
Decide(s) ==
  [s EXCEPT !._isSpeech = IsSpeechFlag(s._speakingLength, s.speechLength, @)]

\* lines 306-308
Complete(s, t) == IF ~s._isSpeech THEN CompleteFrames(s, t) ELSE s

\* lines 310-324
Report(s, text, code) ==
  [s EXCEPT !.calls = @ \o CodeCalls(text, code, s.woke)]

\* --------------------------------------------------------------- actions
fields == <<woke, speechLength, realSpeechLength, startSpeechLength,
            _prevSpeaking, _speakingLength, _frames, _count,
            _wakeWordStreams, _isSpeech>>
backend == <<recognizer, recGiven, recCallback, googleFrames, voskRec>>
observed == <<now, frameNo, calls, last, boundaries, wakeUps, uttStart,
              speechAt, speechFrame, spoken, matched, asleep, cadence,
              afterStop, invoked, porcupineCalls, vadCalls, recognizeCalls,
              awakeBlocks, payloads, resetAt>>

Invocation(who, data, flag) == [who |-> who, data |-> data, flag |-> flag]

\* lines 261-324: _recognize(data, frames, t, st) as one step, with the clock
\* at t.  wakeWordIndex is what porcupine.process returns, vad what
\* self.vad.isSpeech returns (it is only called while woke).
Recognize(t, data, wakeWordIndex, vad) ==
  \E s1 \in {WakeUp(StoreWakeWordStream(Self, data), t, wakeWordIndex)} :
  /\ now' = t
  /\ frameNo' = data
  /\ _wakeWordStreams' = s1._wakeWordStreams
  /\ matched' = (matched \/ wakeWordIndex >= 0)
  /\ asleep' = IF ~woke THEN Append(asleep, data) ELSE asleep
  /\ awakeBlocks' = IF woke \/ wakeWordIndex >= 0 THEN Append(awakeBlocks, data)
                    ELSE awakeBlocks
  /\ porcupineCalls' = Append(porcupineCalls, data)
  /\ afterStop' = IF stopRequested THEN afterStop + 1 ELSE afterStop
  /\ UNCHANGED <<listen, realSpeechLength, startSpeechLength, recognizer,
                 recGiven, recCallback, stream, mode, stopRequested>>
  /\ IF ~s1.woke
     THEN \* line 278: nothing else is done for this block
          /\ calls' = s1.calls
          /\ last' = [data |-> data, wakeWordIndex |-> wakeWordIndex,
                      wokeBefore |-> woke, recognized |-> FALSE, vad |-> FALSE,
                      count |-> 0, isSpeech |-> TRUE, text |-> <<>>,
                      code |-> <<>>, audio |-> <<>>]
          /\ boundaries' = boundaries \o BoundaryTypes(s1.calls)
          /\ invoked' = <<Invocation("porcupine", data, TRUE)>>
          /\ UNCHANGED <<woke, speechLength, _prevSpeaking, _speakingLength,
                         _frames, _count, _isSpeech, wakeUps, uttStart,
                         speechAt, speechFrame, spoken, cadence, googleFrames,
                         voskRec, vadCalls, recognizeCalls, payloads, resetAt>>
     ELSE \E s4 \in {Decide(Measure(Collect(s1, t, data, vad), t,
                                    startSpeechLength, realSpeechLength))} :
          \* line 304
          \E o \in Backend(recognizer, googleFrames, voskRec, recCallback,
                           data, s4._isSpeech) :
          \E s6 \in {Report(Complete([s4 EXCEPT !.calls = @ \o
                                        [i \in 1..Len(o.events) |->
                                           Call(o.events[i], s4.woke)]], t),
                            o.text, o.code)} :
          LET wokeUp == ~woke /\ s1.woke
              speech == wokeUp \/ vad
              gap == t - now
              complete == {i \in 1..Len(s6.calls) :
                             TypeOf(s6.calls[i]) = "completeFrames"}
          IN
          /\ woke' = s6.woke
          /\ _count' = s6._count
          /\ _prevSpeaking' = s6._prevSpeaking
          /\ _speakingLength' = s6._speakingLength
          /\ speechLength' = s6.speechLength
          /\ _isSpeech' = s6._isSpeech
          /\ _frames' = s6._frames
          /\ calls' = s6.calls
          /\ googleFrames' = IF recognizer = "google" THEN o.state ELSE googleFrames
          /\ voskRec' = IF recognizer = "vosk" THEN o.state ELSE voskRec
          /\ last' = [data |-> data, wakeWordIndex |-> wakeWordIndex,
                      wokeBefore |-> woke, recognized |-> TRUE, vad |-> vad,
                      count |-> s4._count, isSpeech |-> s4._isSpeech,
                      text |-> o.text, code |-> o.code, audio |-> o.audio]
          /\ boundaries' = boundaries \o BoundaryTypes(s6.calls)
          /\ wakeUps' = IF wokeUp THEN wakeUps + 1 ELSE wakeUps
          /\ uttStart' = IF wokeUp THEN data ELSE uttStart
          /\ speechAt' = IF speech THEN t ELSE speechAt
          /\ speechFrame' = IF speech THEN data ELSE speechFrame
          /\ spoken' = IF vad THEN TRUE ELSE IF wokeUp THEN FALSE ELSE spoken
          /\ cadence' = IF speech THEN 0
                        ELSE IF data = speechFrame + 1 \/ cadence = gap THEN gap
                        ELSE -1
          /\ invoked' = <<Invocation("porcupine", data, TRUE),
                          Invocation("vad", data, TRUE),
                          Invocation("recognize", data, s4._isSpeech)>>
          /\ vadCalls' = Append(vadCalls, data)
          /\ recognizeCalls' = Append(recognizeCalls, <<data, s4._isSpeech>>)
          /\ payloads' = payloads \o
               SelectSeq([i \in 1..Len(s6.calls) |->
                            IF i \in complete
                            THEN [ref |-> "self._frames",
                                  seen |-> s6.calls[i].data.frames]
                            ELSE [ref |-> "", seen |-> <<>>]],
                         LAMBDA x : x.ref # "")
          /\ resetAt' = IF s1.woke /\ ~s6.woke THEN t ELSE resetAt

\* lines 334-345 and 327: start(block) opens the input stream, in the calling
\* thread or in a daemon thread
Start(block) ==
  /\ stream = "closed" /\ mode = "none"
  /\ stream' = "open"
  /\ mode' = IF block THEN "block" ELSE "thread"
  /\ UNCHANGED <<fields, listen, backend, observed, stopRequested>>

\* line 358: speech.start(block=True)
StartBlocking == Start(TRUE)

\* sounddevice delivers the next audio block to the stream callback, gap
\* seconds after the previous one
Frame ==
  /\ stream = "open"
  /\ frameNo < MaxFrames
  /\ \E gap \in 0..MaxGap, wakeWordIndex \in WakeWordIndexes, vad \in BOOLEAN :
       /\ now + gap <= MaxTime
       /\ Recognize(now + gap, frameNo + 1, wakeWordIndex, vad)

Next == StartBlocking \/ Frame

Spec == Init /\ [][Next]_vars

\* the blocks of a quiet room: no voice activity, nothing recognized, and a
\* pause that is either none or longer than every silence timeout
InitStream == Constructed({"quiet"})

StreamFrame ==
  /\ stream = "open"
  /\ frameNo < MaxStreamFrames
  /\ \E gap \in {0, StartSpeechLength + 1}, wakeWordIndex \in WakeWordIndexes :
       /\ gap > 0 => woke
       /\ wakeWordIndex >= 0 => wakeUps < MaxStreamWakeUps
       /\ Recognize(now + gap, frameNo + 1, wakeWordIndex, FALSE)

NextStream == StartBlocking \/ StreamFrame

SpecStream == InitStream /\ [][NextStream]_vars

\* a session with a GoogleRecognizer or a VoskRecognizer, built with or
\* without a callback of its own
InitBackends == Constructed({"google", "vosk"})

BackendFrame ==
  /\ stream = "open"
  /\ frameNo < MaxBackendFrames
  /\ \E gap \in 0..MaxGap, wakeWordIndex \in WakeWordIndexes, vad \in BOOLEAN :
       /\ now + gap <= MaxTime
       /\ Recognize(now + gap, frameNo + 1, wakeWordIndex, vad)

NextBackends == StartBlocking \/ BackendFrame

SpecBackends == InitBackends /\ [][NextBackends]_vars

\* the listening session: start in either mode, then audio blocks, and the
\* two ways a host has to ask for a stop
StartSession == \E block \in BOOLEAN : Start(block)

\* lines 328-332: a KeyboardInterrupt is raised in the main thread.  When
\* _start runs there (block=True) the loop breaks and the stream is closed;
\* when _start runs in the daemon thread of line 345 it does not see it.
Interrupt ==
  /\ stream = "open"
  /\ stopRequested' = TRUE
  /\ stream' = IF mode = "block" THEN "closed" ELSE stream
  /\ UNCHANGED <<fields, listen, backend, observed, mode>>

\* line 243: the host clears the listen flag of the recognizer
SetListen ==
  /\ stream = "open" /\ listen
  /\ listen' = FALSE
  /\ stopRequested' = TRUE
  /\ UNCHANGED <<fields, backend, observed, stream, mode>>

SessionFrame ==
  /\ stream = "open"
  /\ frameNo < MaxSessionFrames
  /\ \E gap \in 0..MaxGap, wakeWordIndex \in WakeWordIndexes, vad \in BOOLEAN :
       /\ now + gap <= MaxTime
       /\ Recognize(now + gap, frameNo + 1, wakeWordIndex, vad)

NextSession == StartSession \/ SessionFrame \/ Interrupt \/ SetListen

SpecSession == Init /\ [][NextSession]_vars

\* a session whose blocks keep arriving, each at least a second after the
\* one before, in which the VAD hears speech in the first blocks only.  The
\* stream stays open (line 330 sleeps for ever), so sounddevice goes on
\* calling _recognize: the block step is weakly fair.
LiveFrame ==
  /\ stream = "open"
  /\ frameNo < MaxLiveFrames
  /\ \E gap \in 1..MaxLiveGap, wakeWordIndex \in WakeWordIndexes, vad \in BOOLEAN :
       /\ vad => (woke \/ wakeWordIndex >= 0) /\ frameNo < MaxLiveSpeech
       /\ Recognize(now + gap, frameNo + 1, wakeWordIndex, vad)

NextLive == StartBlocking \/ LiveFrame

SpecLive ==
  InitStream /\ [][NextLive]_vars /\ WF_vars(StartBlocking) /\ WF_vars(LiveFrame)

\* ------------------------------------------------------------ properties
\* what the sink received while the last block was handled
Delivered(type) == {i \in 1..Len(calls) : calls[i].data.type = type}
Position(type) == IF Delivered(type) = {} THEN 0
                  ELSE CHOOSE i \in Delivered(type) : \A j \in Delivered(type) : i <= j
Range(from, to) == [i \in 1..(to - from + 1) |-> from + i - 1]
LastOf(seq, n) == SubSeq(seq, Len(seq) - n + 1, Len(seq))
Min(a, b) == IF a <= b THEN a ELSE b
ErrorCode(code) == StartsWith(code, "error: ")

\* C1: when the recognizer returns "full" on the block whose silence timeout
\* fires (the flag it was given is False), the fullText event reaches the
\* sink before the completeFrames event of that block.
C1_FullTextBeforeComplete ==
  (last.recognized /\ last.code = <<"full">> /\ ~last.isSpeech)
    => /\ Position("fullText") > 0
       /\ Position("completeFrames") > 0
       /\ Position("fullText") < Position("completeFrames")

\* C2: the frames of every completeFrames event are exactly the blocks from
\* the one that woke the recognizer for this utterance through the one that
\* ends it, in order, and hold no block of an earlier utterance.
C2_PayloadIsUtterance ==
  \A i \in Delivered("completeFrames") :
    calls[i].data.frames = Range(uttStart, last.data)

\* C3: between two blocks, not woke implies that _frames is empty and that
\* _count is 0.
C3_AsleepIsEmpty == ~woke => (_frames = <<>> /\ _count = 0)

\* C4: woke is False until porcupine first reports a keyword; woke goes from
\* True to False exactly on the blocks that deliver completeFrames, such a
\* block delivers it once, the sink receives it while woke is still True
\* (before _reset), and woke is False when the block has been handled.
C4_SleepOnlyOnComplete ==
  /\ ~matched => ~woke
  /\ Cardinality(Delivered("completeFrames")) <= 1
  /\ (last.wokeBefore /\ ~woke) <=> Delivered("completeFrames") # {}
  /\ \A i \in Delivered("completeFrames") : calls[i].woke
  /\ Delivered("completeFrames") # {} => (~woke /\ last.recognized)

C4_Witness ==
  /\ Delivered("completeFrames") # {}
  /\ last.wokeBefore /\ ~woke
  /\ wakeUps = 2

\* C5: the number of wakeWordDetected events equals the number of times woke
\* went from False to True, two of them never follow each other without a
\* completeFrames between them, and a keyword reported while woke delivers
\* no wakeWordDetected and leaves the utterance as it was: its start, its
\* timestamp and its count are those of the wake-up and the voice activity.
C5_OneWakePerWakeUp ==
  /\ Cardinality({i \in 1..Len(boundaries) : boundaries[i] = "wakeWordDetected"})
       = wakeUps
  /\ \A i \in 1..(Len(boundaries) - 1) :
       ~(boundaries[i] = "wakeWordDetected" /\ boundaries[i + 1] = "wakeWordDetected")
  /\ (last.wokeBefore /\ last.wakeWordIndex >= 0)
       => (Delivered("wakeWordDetected") = {} /\ uttStart < last.data)
  /\ woke => (_prevSpeaking = speechAt /\ (spoken <=> _count > 0))

C5_Witness ==
  /\ last.wokeBefore /\ last.wakeWordIndex >= 0 /\ woke
  /\ wakeUps = 2
  /\ boundaries = <<"wakeWordDetected", "completeFrames", "wakeWordDetected">>

\* C6: a block handled while woke ends the utterance (the flag is False and
\* completeFrames is delivered) if and only if the time since the wake-up or
\* the latest voice-activity block is strictly greater than the threshold in
\* force; when the blocks since then came evenly spaced by c, the k-th of
\* them ends the utterance if and only if k * c exceeds the threshold.
C6_EndsWhenSilenceExceeds ==
  last.recognized =>
    /\ ~last.isSpeech <=> (now - speechAt > speechLength)
    /\ ~last.isSpeech <=> Delivered("completeFrames") # {}
    /\ cadence > 0 =>
         (~last.isSpeech <=> (last.data - speechFrame) * cadence > speechLength)

C6_Witness ==
  /\ last.recognized /\ ~last.isSpeech
  /\ spoken /\ speechLength = realSpeechLength
  /\ cadence = 1
  /\ last.data - speechFrame = realSpeechLength + 1

\* C7: every end-of-utterance decision uses startSpeechLength while no block
\* has been classified as speech since the current wake-up and the
\* speechLength given at construction from the first such block on, in the
\* first utterance and in every later one.
C7_ThresholdByUtterance ==
  /\ startSpeechLength = StartSpeechLength
  /\ realSpeechLength \in SpeechLengths
  /\ last.recognized =>
       /\ speechLength = IF spoken THEN realSpeechLength ELSE startSpeechLength
       /\ ~last.isSpeech <=>
            (now - speechAt > IF spoken THEN realSpeechLength ELSE startSpeechLength)

C7_Witness ==
  /\ wakeUps = 2 /\ last.recognized /\ ~last.isSpeech
  /\ ~spoken /\ speechLength = startSpeechLength
  /\ now - speechAt = startSpeechLength + 1

\* C8: _wakeWordStreams never holds more than 30 blocks, it always holds the
\* latest blocks handled while not woke in arrival order (30 of them once 30
\* have been handled), and the block on which the recognizer wakes up is its
\* last element.
C8_WakeWordStreamsBounded ==
  /\ Len(_wakeWordStreams) <= WakeWordStreamsCap
  /\ _wakeWordStreams = LastOf(asleep, Min(Len(asleep), WakeWordStreamsCap))
  /\ (wakeUps = 0 /\ frameNo >= WakeWordStreamsCap)
       => _wakeWordStreams = Range(frameNo - WakeWordStreamsCap + 1, frameNo)
  /\ (~last.wokeBefore /\ last.data > 0)
       => _wakeWordStreams[Len(_wakeWordStreams)] = last.data

C8_Witness ==
  /\ Len(asleep) = WakeWordStreamsCap + 1
  /\ ~last.wokeBefore /\ woke
  /\ _wakeWordStreams = Range(2, WakeWordStreamsCap + 1)

\* C9: as long as porcupine has reported no keyword, no event of any type
\* has been delivered, woke is False, and every field other than
\* _wakeWordStreams has the value given at construction.
C9_SilentWithoutKeyword ==
  ~matched =>
    /\ calls = <<>> /\ boundaries = <<>>
    /\ ~woke /\ ~last.recognized
    /\ _frames = <<>> /\ _count = 0 /\ _prevSpeaking = None
    /\ _speakingLength = 0 /\ _isSpeech /\ listen
    /\ speechLength = realSpeechLength
    /\ _wakeWordStreams = asleep

C9_Witness ==
  /\ ~matched
  /\ frameNo = 4
  /\ now > 1 + StartSpeechLength

\* C10: when recognize returns an error code on a block whose flag is True,
\* one error event with that code is delivered and no other recognition
\* event, woke stays True, and _frames, _count, _prevSpeaking,
\* _speakingLength and _isSpeech are what the block's wake-up and voice
\* activity made them, so the next block is handled from the same state as
\* after any other block.
C10_ErrorIsNotFatal ==
  (last.recognized /\ last.isSpeech /\ ErrorCode(last.code)) =>
    /\ Cardinality(Delivered("error")) = 1
    /\ \A i \in Delivered("error") :
         calls[i].data.text = last.code /\ last.code[2] \in Messages
    /\ Delivered("partialText") \cup Delivered("fullText")
         \cup Delivered("unrecognized") \cup Delivered("completeFrames") = {}
    /\ woke /\ _isSpeech
    /\ _frames # <<>> /\ _frames[Len(_frames)] = last.data
    /\ Len(_frames) >= last.data - uttStart + 1
    /\ _count = last.count /\ (spoken <=> _count > 0)
    /\ _prevSpeaking = speechAt
    /\ _speakingLength = now - speechAt

C10_Witness ==
  /\ last.recognized /\ last.isSpeech /\ ErrorCode(last.code)
  /\ spoken /\ ~last.vad
  /\ last.data > uttStart
  /\ woke

\* C11: a block handled while woke delivers at most one recognition event,
\* fixed by the code recognize returned: partialText or fullText with the
\* returned text, unrecognized, error with the code (the message after its
\* "error: " prefix), nothing for the empty code; whether or not the block
\* also ends the utterance.  A block handled while not woke delivers none.
RecognitionEvents ==
  {i \in 1..Len(calls) :
     calls[i].data.type \in {"partialText", "fullText", "unrecognized", "error"}}

C11_EventByCode ==
  /\ Cardinality(RecognitionEvents) <= 1
  /\ ~last.recognized => RecognitionEvents = {}
  /\ last.recognized =>
       /\ last.code = <<"partial">> =>
            \E i \in RecognitionEvents :
              calls[i].data = [type |-> "partialText", text |-> last.text]
       /\ last.code = <<"full">> =>
            \E i \in RecognitionEvents :
              calls[i].data = [type |-> "fullText", text |-> last.text]
       /\ last.code = <<"unrecognized">> =>
            \E i \in RecognitionEvents : calls[i].data = [type |-> "unrecognized"]
       /\ ErrorCode(last.code) =>
            \E i \in RecognitionEvents :
              calls[i].data = [type |-> "error", text |-> last.code]
       /\ last.code = <<>> => RecognitionEvents = {}

C11_Witness ==
  /\ last.recognized /\ ~last.isSpeech
  /\ last.code = <<"full">>
  /\ Delivered("fullText") # {} /\ Delivered("completeFrames") # {}

\* C12 as stated: every block handled, while woke or not, is given exactly
\* once and in arrival order to porcupine.process and to vad.isSpeech.
C12_BothDetectorsEveryBlock ==
  /\ porcupineCalls = Range(1, frameNo)
  /\ vadCalls = Range(1, frameNo)

\* C12: every block handled is given exactly once and in arrival order to
\* porcupine.process; vad.isSpeech is given, once and in arrival order,
\* exactly the blocks that arrive while woke or that wake the recognizer up,
\* after porcupine.process has seen them, and no block handled while asleep.
C12_DetectorsByState ==
  /\ porcupineCalls = Range(1, frameNo)
  /\ vadCalls = awakeBlocks
  /\ \A i \in 1..(Len(vadCalls) - 1) : vadCalls[i] < vadCalls[i + 1]
  /\ last.data > 0 =>
       /\ invoked[1] = Invocation("porcupine", last.data, TRUE)
       /\ Cardinality({i \in 1..Len(invoked) : invoked[i].who = "porcupine"}) = 1
       /\ Cardinality({i \in 1..Len(invoked) : invoked[i].who = "vad"}) =
            IF last.wokeBefore \/ last.wakeWordIndex >= 0 THEN 1 ELSE 0
       /\ \A i \in 1..Len(invoked) : invoked[i].data = last.data

C12_Witness ==
  /\ frameNo = 4
  /\ vadCalls = <<2, 3>>
  /\ asleep = <<1, 2, 4>>

\* C13: once the host has asked the session to stop, no further audio block
\* is handled, in blocking and in non-blocking mode.
C13_NoBlockAfterStop == stopRequested => afterStop = 0

\* C14: on the block that wakes the recognizer the silence is measured from
\* the timestamp that wake-up has just set, never from the one the previous
\* _reset left: however long it was asleep, the block delivers
\* wakeWordDetected and no completeFrames, the recognizer is given the flag
\* True, and woke stays True.
C14_WakingBlockNeverTimesOut ==
  (~last.wokeBefore /\ last.wakeWordIndex >= 0)
    => /\ Delivered("wakeWordDetected") # {}
       /\ Delivered("completeFrames") = {}
       /\ last.recognized /\ last.isSpeech
       /\ woke /\ _isSpeech
       /\ _prevSpeaking = now
       /\ _speakingLength = 0

\* a second wake-up, after a sleep longer than every silence threshold
C14_Witness ==
  /\ ~last.wokeBefore /\ last.wakeWordIndex >= 0
  /\ wakeUps = 2
  /\ ~last.vad
  /\ now - resetAt > startSpeechLength

\* C15: the recognizer is called exactly for the blocks handled while woke,
\* once each, after porcupine and the VAD of that block, with that block and
\* the flag just decided; the flag is False on exactly the last call of each
\* utterance, the block that delivers completeFrames, and the call after it
\* belongs to a block that found the recognizer asleep and carries True.
C15_RecognizeOncePerAwakeBlock ==
  LET n == Len(recognizeCalls)
      wasAsleep(b) == \E j \in 1..Len(asleep) : asleep[j] = b
  IN
  /\ [i \in 1..n |-> recognizeCalls[i][1]] = awakeBlocks
  /\ awakeBlocks = vadCalls
  /\ \A i \in 1..Len(awakeBlocks) :
       wasAsleep(awakeBlocks[i]) => /\ recognizeCalls[i][2]
                                    /\ (i > 1 => ~recognizeCalls[i - 1][2])
  /\ \A i \in 1..(n - 1) :
       ~recognizeCalls[i][2] <=> wasAsleep(recognizeCalls[i + 1][1])
  /\ n > 0 => (recognizeCalls[n][2] <=> woke)
  /\ n = 0 => ~woke
  /\ last.recognized <=> (n > 0 /\ recognizeCalls[n][1] = last.data)
  /\ last.recognized =>
       /\ [i \in 1..3 |-> invoked[i].who] = <<"porcupine", "vad", "recognize">>
       /\ \A i \in 1..3 : invoked[i].data = last.data
       /\ invoked[3].flag = recognizeCalls[n][2]
       /\ ~invoked[3].flag <=> Delivered("completeFrames") # {}
  /\ ~last.recognized => Len(invoked) <= 1

C15_Witness ==
  /\ recognizeCalls = <<<<2, TRUE>>, <<3, FALSE>>, <<5, TRUE>>>>
  /\ asleep = <<1, 2, 4, 5>>

\* C16: GoogleRecognizer.recognize with the flag True appends the block to
\* its buffer and returns the empty code without recognizing; with the flag
\* False it recognizes over the blocks buffered since the last flush, returns
\* "full", "unrecognized" or an error code and leaves the buffer empty on
\* every return path, so a recognition only ever covers blocks of the
\* utterance it ends.
C16_GoogleBuffersThenFlushes ==
  recognizer = "google" =>
    /\ googleFrames = IF woke THEN Range(uttStart, frameNo) ELSE <<>>
    /\ (last.recognized /\ last.isSpeech)
         => /\ last.code = <<>> /\ last.text = <<>> /\ last.audio = <<>>
            /\ googleFrames # <<>> /\ googleFrames[Len(googleFrames)] = last.data
    /\ (last.recognized /\ ~last.isSpeech)
         => /\ last.code \in {<<"full">>, <<"unrecognized">>} \/ ErrorCode(last.code)
            /\ last.code \in {<<"full">>, <<"unrecognized">>}
                 => last.audio = Range(uttStart, last.data - 1)
            /\ last.audio \in {<<>>, Range(uttStart, last.data - 1)}
            /\ googleFrames = <<>>

\* the second utterance of a session is recognized, over its own blocks only
C16_Witness ==
  /\ recognizer = "google"
  /\ wakeUps = 2
  /\ last.recognized /\ ~last.isSpeech
  /\ last.code = <<"full">>
  /\ last.audio = <<3>>

\* C17: VoskRecognizer.recognize with the flag False always returns "full",
\* never "partial" or the empty code, and resets the recognizer, whatever
\* AcceptWaveform and the results reported for the block; "partial" is only
\* returned with the flag True and a non-empty partial text.
C17_VoskFullWhenNotSpeech ==
  (recognizer = "vosk" /\ last.recognized) =>
    /\ ~last.isSpeech => /\ last.code = <<"full">>
                         /\ voskRec = <<>>
                         /\ Delivered("fullText") # {}
    /\ last.code = <<"partial">> => (last.isSpeech /\ last.text # <<>>)
    /\ last.code \in {<<"partial">>, <<"full">>, <<>>}

\* the utterance ends on a block for which vosk had no text at all
C17_Witness ==
  /\ recognizer = "vosk"
  /\ last.recognized /\ ~last.isSpeech
  /\ last.text = <<>>
  /\ last.code = <<"full">>
  /\ last.data > uttStart

\* C18: the frames of a delivered completeFrames event are a snapshot of
\* their own: handling later blocks never changes what a payload that was
\* already delivered holds.
C18_PayloadIsSnapshot ==
  \A i \in 1..Len(payloads) : Deref(payloads[i].ref) = payloads[i].seen

SevenTags == {"wakeWordDetected", "voiceActivity", "partialText", "fullText",
              "unrecognized", "error", "completeFrames"}

\* C20: every event delivered to the sink carries one of the seven tags
\* wakeWordDetected, voiceActivity, partialText, fullText, unrecognized,
\* error, completeFrames, also when the recognizer was built without a
\* callback of its own and the sink was installed as its callback.
C20_OnlySevenTags == \A i \in 1..Len(calls) : TypeOf(calls[i]) \in SevenTags

\* C20, amended: besides the seven tags the sink receives googleRecognizing,
\* and that only from a GoogleRecognizer built without a callback of its own,
\* once, on the block that ends the utterance, before completeFrames and
\* before the event of the recognizer's code; every other recognizer, and a
\* GoogleRecognizer with its own callback, delivers the seven tags only.
C20_SevenTagsOrGoogleRecognizing ==
  /\ \A i \in 1..Len(calls) : TypeOf(calls[i]) \in SevenTags \cup {"googleRecognizing"}
  /\ Delivered("googleRecognizing") # {}
       => /\ recognizer = "google" /\ recGiven = "default"
          /\ Cardinality(Delivered("googleRecognizing")) = 1
          /\ last.recognized /\ ~last.isSpeech
          /\ last.code \in {<<"full">>, <<"unrecognized">>, <<"error: ", "{e}">>}
          /\ Position("googleRecognizing") < Position("completeFrames")
          /\ \A i \in RecognitionEvents : Position("googleRecognizing") < i
  /\ (recognizer = "google" /\ recGiven = "default" /\ last.recognized
        /\ last.code \in {<<"full">>, <<"unrecognized">>})
       => Delivered("googleRecognizing") # {}

C20_Witness ==
  /\ recognizer = "google" /\ recGiven = "default"
  /\ last.code = <<"full">>
  /\ [i \in 1..Len(calls) |-> TypeOf(calls[i])]
       = <<"googleRecognizing", "completeFrames", "fullText">>

\* C19: no utterance stays open for ever.  While woke, with blocks that keep
\* arriving on a strictly advancing clock and a VAD that reports no speech
\* from some block on, completeFrames is eventually delivered and woke
\* becomes False; and woke only ever becomes False in the step of a block.
\* (The session of the model has MaxLiveFrames blocks: the utterances that
\* have StartSpeechLength + 1 blocks still to come are the ones followed.)
C19_UtteranceEventuallyEnds ==
  /\ (woke /\ frameNo + StartSpeechLength + 1 <= MaxLiveFrames)
       ~> (~woke /\ Delivered("completeFrames") # {})
  /\ [][(woke /\ ~woke') => (frameNo' = frameNo + 1 /\ now' > now)]_vars

\* an utterance without any speech, ended by blocks one second apart
C19_Witness ==
  /\ last.wokeBefore /\ ~woke
  /\ Delivered("completeFrames") # {}
  /\ ~spoken /\ cadence = 1
  /\ last.data = uttStart + StartSpeechLength + 1

====
